---- MODULE Spec2Model ----
(***************************************************************************)
(* Qingping CGP22C "CGAU" payload decoder (apps/qingping_mqtt_parser.py),  *)
(* the device bookkeeping (apps/qingping_device.py) and the MQTT message   *)
(* handler (apps/qingping_mqtt.py).                                        *)
(*                                                                         *)
(* Bytes are integers 0..255 and a frame is a sequence of bytes (index 1   *)
(* is Python index 0).  A Python float is held in thousandths (25.0 is     *)
(* 25000), which is exact for every x/10 the code computes.                *)
(***************************************************************************)
EXTENDS Integers, Sequences, FiniteSets, TLC

VARIABLES
    logger,       \* parser.logger: "none" (None), "ok" (info works), "raises" (info raises)
    debug_mode,   \* parser.debug_mode
    pc,           \* per call of parse_payload: the line the call is at
    payload,      \* per call: the argument
    result,       \* per call: the local `result` / the returned value
    found,        \* per call: the local `found`
    out,          \* per call: the messages the call has emitted, <<channel, text>>
    raised,       \* per call: an exception left parse_payload
    dbg,          \* per call: the value of debug_mode the call read at line 39
    devices,      \* QingpingMQTT.devices: addr -> QingpingDevice fields
    states,       \* the entity registry behind handler.set_state: entity_id -> state
    created,      \* entity_id -> number of set_state(state="unknown") calls made for it
    constructed,  \* addr -> number of QingpingDevice(...) constructions
    setStateCalls,\* number of set_state calls made by update_sensors
    clock         \* number of messages handled (stands for datetime.now())

parserVars == <<logger, debug_mode>>
callVars == <<pc, payload, result, found, out, raised, dbg>>
appVars == <<devices, states, created, constructed, setStateCalls, clock>>
vars == <<logger, debug_mode, pc, payload, result, found, out, raised, dbg,
          devices, states, created, constructed, setStateCalls, clock>>

(***************************************************************************)
(* Bounds of the model.                                                    *)
(***************************************************************************)
MaxLen == 20
MaxMsgs == 3

(***************************************************************************)
(* Values.                                                                 *)
(***************************************************************************)
Min(a, b) == IF a < b THEN a ELSE b

IntV(n) == [t |-> "int", v |-> n]
FloatV(m) == [t |-> "float", v |-> m]
UnknownV == [t |-> "unknown", v |-> 0]

EmptyMap == [k \in {} |-> 0]

\* Python None as a payload: a one-element sequence no frame can equal.
None == <<-1>>

\* b"CGAU"
Magic == <<67, 71, 65, 85>>

\* the fixed offset of the sensor triple
Offset == 13

\* payload[a:b] for 0 <= a <= b: Python clamps a slice to the sequence
Slice(p, a, b) == SubSeq(p, a + 1, Min(b, Len(p)))

\* int.from_bytes(bs, "little"); the empty sequence gives 0
RECURSIVE FromBytesLittle(_)
FromBytesLittle(bs) ==
    IF Len(bs) = 0 THEN 0 ELSE bs[1] + 256 * FromBytesLittle(Tail(bs))

\* x / 10.0 as a float, in thousandths
TrueDiv10(x) == x * 100

\* round(f, 1) of a non-negative float in thousandths: the nearest tenth,
\* a tie going to the even tenth
Round1(m) ==
    LET q == m \div 100
        r == m % 100
    IN  IF r < 50 THEN q * 100
        ELSE IF r > 50 THEN (q + 1) * 100
        ELSE IF q % 2 = 0 THEN q * 100 ELSE (q + 1) * 100

\* int(f) of a non-negative float in thousandths: truncation
\* (IntTruncNearest: rounding to the nearest integer instead)
IntTruncNearest(m) == (m + 500) \div 1000
IntTrunc(m) == m \div 1000

\* `not payload`
Falsy(p) == p = None \/ Len(p) = 0

\* payload[:4] == b"CGAU" (HasMagicAnyPrefix: only the first byte compared)
HasMagicAnyPrefix(p) == Len(p) >= 1 /\ p[1] = Magic[1]
HasMagic(p) == Slice(p, 0, 4) = Magic

NoTriple == [offset |-> -1, t_raw |-> 0, h_raw |-> 0, co2_raw |-> 0]

\* _find_sensor_triple (FindSensorTripleAt12: the words read one byte early)
FindSensorTripleAt12(p) ==
    [offset  |-> Offset,
     t_raw   |-> FromBytesLittle(Slice(p, Offset - 1, Offset + 1)),
     h_raw   |-> FromBytesLittle(Slice(p, Offset + 1, Offset + 3)),
     co2_raw |-> FromBytesLittle(Slice(p, Offset + 3, Offset + 5))]
FindSensorTriple(p) ==
    [offset  |-> Offset,
     t_raw   |-> FromBytesLittle(Slice(p, Offset, Offset + 2)),
     h_raw   |-> FromBytesLittle(Slice(p, Offset + 2, Offset + 4)),
     co2_raw |-> FromBytesLittle(Slice(p, Offset + 4, Offset + 6))]

\* `if found:` a 4-tuple is truthy, None is not
Truthy(f) == f # NoTriple

\* the dict handed to result["sensor"].update
\* (SensorOfScaledCo2: the CO2 word divided by 10 like the other two)
SensorOfScaledCo2(f) ==
    [temperature         |-> FloatV(Round1(TrueDiv10(f.t_raw))),
     temperature_raw     |-> IntV(f.t_raw),
     humidity            |-> IntV(IntTrunc(TrueDiv10(f.h_raw))),
     humidity_raw        |-> IntV(f.h_raw),
     co2_ppm             |-> IntV(IntTrunc(TrueDiv10(f.co2_raw))),
     co2_raw             |-> IntV(f.co2_raw),
     sensor_offset_bytes |-> IntV(f.offset)]
SensorOf(f) ==
    [temperature         |-> FloatV(Round1(TrueDiv10(f.t_raw))),
     temperature_raw     |-> IntV(f.t_raw),
     humidity            |-> IntV(IntTrunc(TrueDiv10(f.h_raw))),
     humidity_raw        |-> IntV(f.h_raw),
     co2_ppm             |-> IntV(f.co2_raw),
     co2_raw             |-> IntV(f.co2_raw),
     sensor_offset_bytes |-> IntV(f.offset)]

EmptyResult ==
    [sensor |-> EmptyMap, device_info |-> EmptyMap,
     historical_data |-> <<>>, timestamp |-> "None"]

\* no value was returned (the call has not returned, or an exception left it)
NoResult == [returned |-> FALSE]

(***************************************************************************)
(* Diagnostics.                                                            *)
(***************************************************************************)
Loggers == {"none", "ok", "raises"}

\* log: where one message goes; a raising logger.info is caught and the
\* message printed (LogOutcomeNoExcept: log without its try/except)
LogOutcomeNoExcept(lg) ==
    IF lg = "none" THEN "stdout" ELSE IF lg = "ok" THEN "sink" ELSE "raise"
LogOutcome(lg) ==
    IF lg = "none" THEN "stdout" ELSE IF lg = "ok" THEN "sink" ELSE "stdout"

\* a run of self.log calls: the first one that raises ends the run
Emit(o, msgs, lg) ==
    IF Len(msgs) > 0 /\ LogOutcome(lg) = "raise"
    THEN [out |-> o, raised |-> TRUE]
    ELSE [out |-> o \o [i \in 1..Len(msgs) |-> <<LogOutcome(lg), msgs[i]>>],
          raised |-> FALSE]

\* payload.split(b'\x00'): the number of sections
NumSections(p) == Cardinality({i \in 1..Len(p) : p[i] = 0}) + 1

\* debug_payload: the messages it logs, in order
DebugMessages(p) ==
    <<"=== Payload Analysis ===", "Payload", "Hex", "Length", "Number of sections">>
    \o [i \in 1..NumSections(p) |-> "Section"]
    \o <<"========================">>

(***************************************************************************)
(* parse_payload, line by line, for the calls in flight.                   *)
(***************************************************************************)
Calls == {1, 2}

\* parse_payload is entered
Call(c, p) ==
    /\ pc[c] = "idle"
    /\ pc' = [pc EXCEPT ![c] = "entry"]
    /\ payload' = [payload EXCEPT ![c] = p]
    /\ UNCHANGED <<result, found, out, raised, dbg, parserVars, appVars>>

\* lines 36-37
CheckEmpty(c) ==
    /\ pc[c] = "entry"
    /\ IF Falsy(payload[c])
       THEN /\ result' = [result EXCEPT ![c] = EmptyResult]
            /\ pc' = [pc EXCEPT ![c] = "done"]
       ELSE /\ pc' = [pc EXCEPT ![c] = "debug"]
            /\ UNCHANGED result
    /\ UNCHANGED <<payload, found, out, raised, dbg, parserVars, appVars>>

\* lines 39-42: the dump is outside the try block
\* (DebugStepEarlyReturn: the function returns right after the dump)
DebugStepEarlyReturn(c) ==
    /\ pc[c] = "debug"
    /\ dbg' = [dbg EXCEPT ![c] = debug_mode]
    /\ out' = [out EXCEPT ![c] =
                 IF debug_mode THEN Emit(out[c], DebugMessages(payload[c]), logger).out
                 ELSE out[c]]
    /\ result' = [result EXCEPT ![c] = EmptyResult]
    /\ pc' = [pc EXCEPT ![c] = IF debug_mode THEN "done" ELSE "header"]
    /\ UNCHANGED <<payload, found, raised, parserVars, appVars>>
DebugStep(c) ==
    /\ pc[c] = "debug"
    /\ dbg' = [dbg EXCEPT ![c] = debug_mode]
    /\ LET e == IF debug_mode
                THEN Emit(out[c], DebugMessages(payload[c]), logger)
                ELSE [out |-> out[c], raised |-> FALSE]
       IN  IF e.raised
           THEN /\ raised' = [raised EXCEPT ![c] = TRUE]
                /\ pc' = [pc EXCEPT ![c] = "done"]
                /\ UNCHANGED <<out, result>>
           ELSE /\ out' = [out EXCEPT ![c] = e.out]
                /\ result' = [result EXCEPT ![c] = EmptyResult]
                /\ pc' = [pc EXCEPT ![c] = "header"]
                /\ UNCHANGED raised
    /\ UNCHANGED <<payload, found, parserVars, appVars>>

\* a self.log call inside the try block: when it raises, the except clause
\* (lines 73-75) logs the exception and returns result
LogInTry(c, msg) ==
    LET e == Emit(out[c], <<msg>>, logger)
        h == Emit(out[c], <<"Exception while parsing payload">>, logger)
    IN  IF ~e.raised
        THEN /\ out' = [out EXCEPT ![c] = e.out]
             /\ UNCHANGED raised
        ELSE IF ~h.raised
        THEN /\ out' = [out EXCEPT ![c] = h.out]
             /\ UNCHANGED raised
        ELSE /\ raised' = [raised EXCEPT ![c] = TRUE]
             /\ UNCHANGED out

\* lines 44-47
HeaderStep(c) ==
    /\ pc[c] = "header"
    /\ IF ~HasMagic(payload[c])
       THEN /\ LogInTry(c, "Unknown header")
            /\ result' = [result EXCEPT ![c] = IF raised'[c] THEN NoResult ELSE @]
            /\ pc' = [pc EXCEPT ![c] = "done"]
       ELSE /\ pc' = [pc EXCEPT ![c] = "find"]
            /\ UNCHANGED <<out, raised, result>>
    /\ UNCHANGED <<payload, found, dbg, parserVars, appVars>>

\* line 50 (FindStepOfOtherCall: the frame kept in a field of the parser,
\* so a call reads the frame of the call that is in flight beside it)
FindStepOfOtherCall(c) ==
    /\ pc[c] = "find"
    /\ found' = [found EXCEPT ![c] =
                   LET o == 3 - c
                   IN  IF pc[o] \in {"debug", "header", "find", "assemble"}
                       THEN FindSensorTriple(payload[o])
                       ELSE FindSensorTriple(payload[c])]
    /\ pc' = [pc EXCEPT ![c] = "assemble"]
    /\ UNCHANGED <<payload, result, out, raised, dbg, parserVars, appVars>>
FindStep(c) ==
    /\ pc[c] = "find"
    /\ found' = [found EXCEPT ![c] = FindSensorTriple(payload[c])]
    /\ pc' = [pc EXCEPT ![c] = "assemble"]
    /\ UNCHANGED <<payload, result, out, raised, dbg, parserVars, appVars>>

\* lines 51-71
AssembleStep(c) ==
    /\ pc[c] = "assemble"
    /\ IF Truthy(found[c])
       THEN /\ result' = [result EXCEPT ![c] =
                            [@ EXCEPT !.sensor = SensorOf(found[c])]]
            /\ UNCHANGED <<out, raised>>
       ELSE /\ LogInTry(c, "No sensor triple found")
            /\ result' = [result EXCEPT ![c] = IF raised'[c] THEN NoResult ELSE @]
    /\ pc' = [pc EXCEPT ![c] = "done"]
    /\ UNCHANGED <<payload, found, dbg, parserVars, appVars>>

\* the caller has taken the returned value; the call's locals are gone
Return(c) ==
    /\ pc[c] = "done"
    /\ pc' = [pc EXCEPT ![c] = "idle"]
    /\ payload' = [payload EXCEPT ![c] = <<>>]
    /\ result' = [result EXCEPT ![c] = NoResult]
    /\ found' = [found EXCEPT ![c] = NoTriple]
    /\ out' = [out EXCEPT ![c] = <<>>]
    /\ raised' = [raised EXCEPT ![c] = FALSE]
    /\ dbg' = [dbg EXCEPT ![c] = FALSE]
    /\ UNCHANGED <<parserVars, appVars>>

\* the owner of the parser assigns its public debug_mode attribute
SetDebugMode(b) ==
    /\ debug_mode # b
    /\ debug_mode' = b
    /\ UNCHANGED <<logger, callVars, appVars>>

\* parse_payload as a function of the frame: what lines 34-75 return
ParsePayload(p) ==
    IF Falsy(p) THEN EmptyResult
    ELSE IF ~HasMagic(p) THEN EmptyResult
    ELSE LET f == FindSensorTriple(p)
         IN  IF Truthy(f) THEN [EmptyResult EXCEPT !.sensor = SensorOf(f)]
             ELSE EmptyResult

(***************************************************************************)
(* Input frames.                                                           *)
(***************************************************************************)
LE16(v) == <<v % 256, v \div 256>>

Fill(n, b) == [i \in 1..n |-> b]

\* a frame of length n: header, filler, the three words at offset 13, filler
FrameOf(hdr, b, t, h, c, n) ==
    SubSeq(hdr \o Fill(Offset - 4, b) \o LE16(t) \o LE16(h) \o LE16(c)
               \o Fill(MaxLen - (Offset + 6), b), 1, n)

BadMagic == <<67, 71, 65, 88>>
Headers == {Magic, BadMagic}
Fillers == {0, 255}
TempRaws == {0, 5, 233, 250, 65535}
HumRaws == {0, 9, 455, 459, 550, 65535}
Co2Raws == {0, 800, 65535}

Frames ==
    {FrameOf(hd, b, t, h, c, n) :
        hd \in Headers, b \in Fillers, t \in TempRaws, h \in HumRaws,
        c \in Co2Raws, n \in 0..MaxLen}
    \cup {None}

PairFrames ==
    {FrameOf(Magic, 0, 250, 550, 800, Offset + 6),
     FrameOf(Magic, 255, 233, 459, 0, MaxLen),
     FrameOf(BadMagic, 0, 250, 550, 800, Offset + 6),
     FrameOf(Magic, 0, 250, 550, 800, Offset + 2),
     FrameOf(Magic, 0, 250, 550, 800, 2),
     <<>>, None}

(***************************************************************************)
(* Specifications.                                                         *)
(***************************************************************************)
Init ==
    /\ logger \in Loggers
    /\ debug_mode = TRUE
    /\ pc = [c \in Calls |-> "idle"]
    /\ payload = [c \in Calls |-> <<>>]
    /\ result = [c \in Calls |-> NoResult]
    /\ found = [c \in Calls |-> NoTriple]
    /\ out = [c \in Calls |-> <<>>]
    /\ raised = [c \in Calls |-> FALSE]
    /\ dbg = [c \in Calls |-> FALSE]
    /\ devices = EmptyMap
    /\ states = EmptyMap
    /\ created = EmptyMap
    /\ constructed = EmptyMap
    /\ setStateCalls = 0
    /\ clock = 0

\* one caller, every frame
Next ==
    \/ \E p \in Frames : Call(1, p)
    \/ CheckEmpty(1)
    \/ DebugStep(1)
    \/ HeaderStep(1)
    \/ FindStep(1)
    \/ AssembleStep(1)
    \/ Return(1)
    \/ \E b \in BOOLEAN : SetDebugMode(b)

Spec == Init /\ [][Next]_vars

\* two callers on the one parser, interleaved line by line
NextPair ==
    \/ \E c \in Calls, p \in PairFrames : Call(c, p)
    \/ \E c \in Calls : CheckEmpty(c)
    \/ \E c \in Calls : DebugStep(c)
    \/ \E c \in Calls : HeaderStep(c)
    \/ \E c \in Calls : FindStep(c)
    \/ \E c \in Calls : AssembleStep(c)
    \/ \E c \in Calls : Return(c)
    \/ \E b \in BOOLEAN : SetDebugMode(b)

SpecPair == Init /\ [][NextPair]_vars

(***************************************************************************)
(* QingpingDevice and QingpingMQTT.on_message.                             *)
(***************************************************************************)
\* an address is the sequence of its characters; a topic the sequence of
\* its levels, what msg.topic.split('/') returns
AddrAB == <<"A", "B">>
Addrab == <<"a", "b">>
AddrCD == <<"C", "D">>
AddrUnknown == <<"u", "n", "k", "n", "o", "w", "n">>

Topics ==
    {<<"qingping", AddrAB, "up">>, <<"qingping", Addrab, "up">>,
     <<"qingping", AddrCD, "up">>, <<"qingping">>}

\* on_message lines 57-61
AddrOf(topic_parts) ==
    IF Len(topic_parts) >= 2 THEN topic_parts[2] ELSE AddrUnknown

\* str.lower, on the characters the addresses use
LowerChar(ch) ==
    CASE ch = "A" -> "a" [] ch = "B" -> "b" [] ch = "C" -> "c"
      [] ch = "D" -> "d" [] OTHER -> ch

Lower(s) == [i \in 1..Len(s) |-> LowerChar(s[i])]

\* create_sensors lines 37-66: key -> entity_id, the id being
\* "sensor." + device_id + "_" + suffix with device_id = "qingping_" + addr.lower()
EntityId(addr, suffix) == [device_id |-> Lower(addr), suffix |-> suffix]

SensorEntities(addr) ==
    [temperature |-> EntityId(addr, "temperature"),
     humidity    |-> EntityId(addr, "humidity"),
     co2_ppm     |-> EntityId(addr, "co2"),
     battery     |-> EntityId(addr, "battery")]

EntityIds(addr) == {SensorEntities(addr)[k] : k \in DOMAIN SensorEntities(addr)}

NoData == [none |-> TRUE]

\* QingpingDevice.__init__
NewDevice ==
    [data |-> NoData, sensors_created |-> FALSE,
     sensor_entities |-> EmptyMap, last_update |-> 0]

\* create_sensors lines 68-79: the registry after the set_state calls
CreateSensorsStates(st, addr) ==
    [e \in DOMAIN st \cup EntityIds(addr) |->
        IF e \in EntityIds(addr) THEN UnknownV ELSE st[e]]

\* update_sensors line 95-96: round(value, 1) leaves an int an int
RoundValue(v) == IF v.t = "float" THEN FloatV(Round1(v.v)) ELSE v

\* update_sensors lines 86-92: the keys a set_state call is made for
UpdatedKeys(dev) ==
    IF dev.data = NoData \/ "sensor" \notin DOMAIN dev.data THEN {}
    ELSE {k \in DOMAIN dev.sensor_entities : k \in DOMAIN dev.data.sensor}

\* update_sensors lines 91-107: the registry after the set_state calls
UpdateSensorsStates(st, dev) ==
    [e \in DOMAIN st |->
        IF \E k \in UpdatedKeys(dev) : dev.sensor_entities[k] = e
        THEN LET k == CHOOSE k \in UpdatedKeys(dev) : dev.sensor_entities[k] = e
             IN  RoundValue(dev.data.sensor[k])
        ELSE st[e]]

Bump(f, x) == [y \in DOMAIN f \cup {x} |-> IF y = x THEN (IF x \in DOMAIN f THEN f[x] + 1 ELSE 1) ELSE f[y]]

RECURSIVE BumpAll(_, _)
BumpAll(f, xs) ==
    IF xs = {} THEN f
    ELSE LET x == CHOOSE x \in xs : TRUE IN BumpAll(Bump(f, x), xs \ {x})

\* on_message lines 51-75 with update_from_mqtt lines 15-23
OnMessage(topic_parts, p) ==
    /\ clock < MaxMsgs
    /\ LET addr == AddrOf(topic_parts)
           parsed_data == ParsePayload(p)
           isNew == addr \notin DOMAIN devices
           dev0 == IF isNew THEN NewDevice ELSE devices[addr]
           dev1 == [dev0 EXCEPT !.data = parsed_data, !.last_update = clock + 1]
           create == ~dev1.sensors_created
           dev2 == IF create
                   THEN [dev1 EXCEPT !.sensor_entities = SensorEntities(addr),
                                     !.sensors_created = TRUE]
                   ELSE dev1
           st1 == IF create THEN CreateSensorsStates(states, addr) ELSE states
       IN  /\ devices' = [a \in DOMAIN devices \cup {addr} |->
                            IF a = addr THEN dev2 ELSE devices[a]]
           /\ constructed' = IF isNew THEN Bump(constructed, addr) ELSE constructed
           /\ created' = IF create THEN BumpAll(created, EntityIds(addr)) ELSE created
           /\ states' = UpdateSensorsStates(st1, dev2)
           /\ setStateCalls' = setStateCalls + Cardinality(UpdatedKeys(dev2))
    /\ clock' = clock + 1
    /\ UNCHANGED <<parserVars, callVars>>

AppFrames ==
    {FrameOf(Magic, 0, 250, 550, 800, Offset + 6),
     FrameOf(Magic, 255, 233, 459, 0, MaxLen),
     FrameOf(BadMagic, 0, 250, 550, 800, Offset + 6),
     FrameOf(Magic, 0, 250, 550, 800, Offset + 2),
     FrameOf(Magic, 0, 250, 550, 800, 2),
     <<>>}

NextApp == \E t \in Topics, p \in AppFrames : OnMessage(t, p)

SpecApp == Init /\ [][NextApp]_vars

(***************************************************************************)
(* Properties of parse_payload.                                            *)
(***************************************************************************)
\* the frame starts with the four bytes C, G, A, U
StartsCGAU(p) ==
    /\ Len(p) >= 4
    /\ p[1] = 67 /\ p[2] = 71 /\ p[3] = 65 /\ p[4] = 85

\* the 16-bit little-endian word whose low byte is at Python index i
WordAt(p, i) == p[i + 1] + 256 * p[i + 2]

ResultFields == {"sensor", "device_info", "historical_data", "timestamp"}

\* a value was returned and it is the canonical empty result
ReturnedEmpty(c) ==
    /\ ~raised[c]
    /\ DOMAIN result[c] = ResultFields
    /\ result[c].sensor = EmptyMap
    /\ result[c].device_info = EmptyMap
    /\ result[c].historical_data = <<>>
    /\ result[c].timestamp = "None"

\* a value was returned and its sensor mapping is populated
ReturnedReadings(c) ==
    /\ ~raised[c]
    /\ DOMAIN result[c] = ResultFields
    /\ DOMAIN result[c].sensor # {}

\* C1: a frame with the CGAU header that is shorter than offset+6 = 19
\* bytes returns the canonical empty result and no reading is built from
\* bytes past the end of the frame.
C1_TruncatedFrameEmpty ==
    (/\ pc[1] = "done"
     /\ payload[1] # None
     /\ StartsCGAU(payload[1])
     /\ Len(payload[1]) < 19)
    => ReturnedEmpty(1)

\* C2: a non-empty frame shorter than 4 bytes, or whose first 4 bytes are
\* not C,G,A,U, returns the canonical empty result and nothing is raised.
C2_BadHeaderEmpty ==
    (/\ pc[1] = "done"
     /\ payload[1] # None
     /\ Len(payload[1]) >= 1
     /\ ~StartsCGAU(payload[1]))
    => ReturnedEmpty(1)

C2_Witness ==
    /\ pc[1] = "done"
    /\ payload[1] # None
    /\ Len(payload[1]) = 19
    /\ ~StartsCGAU(payload[1])
    /\ payload[1][1] = 67
    /\ ReturnedEmpty(1)

\* C3 as stated: on a successful decode (CGAU header, length >= 19) the
\* sensor mapping has the keys temperature, temperature_raw, humidity,
\* humidity_raw, carbon_dioxide, carbon_dioxide_raw and sensor_offset_bytes,
\* carbon_dioxide being the raw word and sensor_offset_bytes 13.
C3_KeysAsStated ==
    (/\ pc[1] = "done"
     /\ payload[1] # None
     /\ StartsCGAU(payload[1])
     /\ Len(payload[1]) >= 19)
    => /\ ~raised[1]
       /\ DOMAIN result[1] = ResultFields
       /\ DOMAIN result[1].sensor =
            {"temperature", "temperature_raw", "humidity", "humidity_raw",
             "carbon_dioxide", "carbon_dioxide_raw", "sensor_offset_bytes"}
       /\ result[1].sensor["carbon_dioxide"] = IntV(WordAt(payload[1], 17))
       /\ result[1].sensor["sensor_offset_bytes"] = IntV(13)

\* C3 amended: on a successful decode the sensor mapping has exactly the
\* keys temperature, temperature_raw, humidity, humidity_raw, co2_ppm,
\* co2_raw and sensor_offset_bytes; co2_ppm and co2_raw are the raw word
\* unmodified, sensor_offset_bytes is 13; device_info and historical_data
\* are empty and timestamp is None.
C3_KeysOfTheCode ==
    (/\ pc[1] = "done"
     /\ payload[1] # None
     /\ StartsCGAU(payload[1])
     /\ Len(payload[1]) >= 19)
    => /\ ~raised[1]
       /\ DOMAIN result[1] = ResultFields
       /\ DOMAIN result[1].sensor =
            {"temperature", "temperature_raw", "humidity", "humidity_raw",
             "co2_ppm", "co2_raw", "sensor_offset_bytes"}
       /\ result[1].sensor["co2_ppm"] = IntV(WordAt(payload[1], 17))
       /\ result[1].sensor["co2_raw"] = IntV(WordAt(payload[1], 17))
       /\ result[1].sensor["sensor_offset_bytes"] = IntV(13)
       /\ result[1].device_info = EmptyMap
       /\ result[1].historical_data = <<>>
       /\ result[1].timestamp = "None"

\* t_raw = 250, h_raw = 550, co2_raw = 800 decoded to 25.0, 55, 800 at 13
C3_Witness ==
    /\ pc[1] = "done"
    /\ payload[1] # None
    /\ StartsCGAU(payload[1])
    /\ Len(payload[1]) >= 19
    /\ ReturnedReadings(1)
    /\ result[1].sensor["temperature"] = FloatV(25000)
    /\ result[1].sensor["humidity"] = IntV(55)
    /\ result[1].sensor["co2_ppm"] = IntV(800)
    /\ result[1].sensor["sensor_offset_bytes"] = IntV(13)

C5_Normalizer ==
    (pc[1] = "done" /\ ReturnedReadings(1))
    => LET s == result[1].sensor
       IN  /\ {"temperature", "temperature_raw", "humidity", "humidity_raw",
               "co2_ppm"} \subseteq DOMAIN s
           /\ s["humidity"].t = "int"
           /\ s["humidity"].v * 10 <= s["humidity_raw"].v
           /\ s["humidity_raw"].v < (s["humidity"].v + 1) * 10
           /\ s["temperature"].t = "float"
           /\ s["temperature"].v % 100 = 0
           /\ s["temperature"].v \div 100 = s["temperature_raw"].v

\* 459 -> 45 and 233 -> 23.3
C5_Witness ==
    /\ pc[1] = "done"
    /\ ReturnedReadings(1)
    /\ result[1].sensor["humidity_raw"] = IntV(459)
    /\ result[1].sensor["humidity"] = IntV(45)
    /\ result[1].sensor["temperature_raw"] = IntV(233)
    /\ result[1].sensor["temperature"] = FloatV(23300)

\* C6: for every input and every logger, a call that has been entered can
\* always take its next step until it returns, it returns without raising a
\* value with exactly the four fields, device_info and historical_data
\* empty and timestamp None; with a logger that raises, every message went
\* to the fallback output stream.
C6_AlwaysReturnsShape ==
    /\ pc[1] \in {"entry", "debug", "header", "find", "assemble"}
         => ENABLED (CheckEmpty(1) \/ DebugStep(1) \/ HeaderStep(1)
                       \/ FindStep(1) \/ AssembleStep(1))
    /\ pc[1] = "done"
         => /\ ~raised[1]
            /\ DOMAIN result[1] = ResultFields
            /\ result[1].device_info = EmptyMap
            /\ result[1].historical_data = <<>>
            /\ result[1].timestamp = "None"
            /\ logger = "raises"
                 => \A i \in 1..Len(out[1]) : out[1][i][1] = "stdout"

\* a logger that raised on every message of the dump and of the header check
C6_Witness ==
    /\ pc[1] = "done"
    /\ logger = "raises"
    /\ dbg[1]
    /\ ~raised[1]
    /\ Len(out[1]) > 6
    /\ out[1][Len(out[1])] = <<"stdout", "Unknown header">>
    /\ result[1] = EmptyResult

\* C7: two calls on the same frame, one that ran the dump and one that did
\* not, return the same value (and neither raises), whatever the logger
\* does; and the dump step leaves the frame as it was.
C7_DumpIsObservational ==
    /\ [](\A c \in Calls, d \in Calls :
            (/\ pc[c] = "done" /\ pc[d] = "done"
             /\ payload[c] = payload[d]
             /\ dbg[c] /\ ~dbg[d])
            => (/\ ~raised[c] /\ ~raised[d]
                /\ result[c] = result[d]))
    /\ [][\A c \in Calls : pc[c] = "debug" => payload'[c] = payload[c]]_vars

C7_Witness ==
    /\ pc[1] = "done" /\ pc[2] = "done"
    /\ payload[1] = payload[2]
    /\ dbg[1] /\ ~dbg[2]
    /\ logger = "raises"
    /\ Len(out[1]) > Len(out[2])
    /\ ReturnedReadings(1)
    /\ result[1] = result[2]

\* C8: every step of a call leaves the parser's fields (logger, debug_mode)
\* alone, and with two calls interleaved on the one parser each returned
\* value is the value of decoding that call's own frame alone.
C8_CallStateless ==
    /\ [](\A c \in Calls :
            pc[c] = "done"
            => /\ ~raised[c]
               /\ result[c] = ParsePayload(payload[c]))
    /\ [][callVars' # callVars => parserVars' = parserVars]_vars

\* two calls in flight on distinct frames, both with readings to return
C8_Witness ==
    /\ pc[1] = "done" /\ pc[2] = "assemble"
    /\ payload[1] # payload[2]
    /\ ReturnedReadings(1)
    /\ Truthy(found[2])
    /\ found[2].t_raw # result[1].sensor["temperature_raw"].v

(***************************************************************************)
(* Properties of on_message and QingpingDevice.                            *)
(***************************************************************************)
\* empty, wrong or short header, or a CGAU frame shorter than 19 bytes
Malformed(p) == Len(p) = 0 \/ ~StartsCGAU(p) \/ Len(p) < 19

\* C9: when on_message handles a malformed frame for an address whose
\* entities already exist, update_sensors makes no set_state call and
\* every entity keeps the state it had.
C9_NoReadingOnMalformed ==
    [][\A t \in Topics, p \in AppFrames :
          (/\ Malformed(p)
           /\ AddrOf(t) \in DOMAIN devices
           /\ devices[AddrOf(t)].sensors_created
           /\ OnMessage(t, p))
          => (states' = states /\ setStateCalls' = setStateCalls)]_vars

\* C10: every address seen has exactly one QingpingDevice, constructed
\* once, whose four entities were created exactly once; sensors_created
\* never goes back to FALSE and no message puts an entity that had a value
\* back to "unknown".
C10_EntitiesCreatedOnce ==
    /\ [](\A a \in DOMAIN devices :
            /\ constructed[a] = 1
            /\ devices[a].sensors_created
            /\ Cardinality(EntityIds(a)) = 4
            /\ \A e \in EntityIds(a) :
                  e \in DOMAIN states /\ e \in DOMAIN created /\ created[e] = 1)
    /\ [][/\ \A a \in DOMAIN devices :
               a \in DOMAIN devices' /\ devices'[a].sensors_created
          /\ \A e \in DOMAIN states :
               states[e] # UnknownV => states'[e] # UnknownV]_vars

====
